---- MODULE Spec2Model ----
(***************************************************************************)
(* Alien Invaders (src/main.cpp): the frame loop of main(), the key        *)
(* callback and the helpers they use, as a state machine.                  *)
(*                                                                         *)
(* One step of Tick is one pass through the body of the game loop          *)
(* (lines 710-1003); PollEvents is glfwPollEvents (line 1008) delivering   *)
(* the pending key events to key_callback; Exit is the loop test failing.  *)
(* The keyboard and std::rand are outside the program: their values come   *)
(* from an input tape chosen at start among InputTapes.                    *)
(*                                                                         *)
(* unsigned int values are kept as signed representatives; the comparisons *)
(* the code makes on them are the unsigned ones (ULess).                   *)
(***************************************************************************)
EXTENDS Integers, Sequences, FiniteSets, TLC

VARIABLES
    alien_array,        \* game.alien_array[50]: x, y, type
    death_counter,      \* death_counter[50]
    alien_animation,    \* alien_animation[0..1].time
    rockets,            \* game.rockets[GAME_MAX_ROCKETS]
    num_rockets,        \* game.num_rockets
    player,             \* game.player: x, y, lives
    first_line_array,   \* game.first_line_array[10]
    frame_counter,      \* game.frame_counter
    score,              \* score
    aliens_killed,      \* aliens_killed
    move_dir,           \* global move_dir
    rocket_fired,       \* global rocket_fired
    game_running,       \* global game_running
    window_should_close,\* glfwWindowShouldClose(window)
    pc,                 \* where main() is: "loop", "poll", "won", "lost", "quit", "ub"
    drawn,              \* what the draw step of the last frame drew for each alien slot
    shown,              \* history: in how many frames the death sprite was drawn for each slot
    keys,               \* keyboard: which of the arrow keys are held down
    space_presses,      \* history: presses of space delivered by the last glfwPollEvents
    tape,               \* the input tape of this session
    ticks,              \* number of loop bodies executed
    rid,                \* history: identity of the projectile in each slot
    next_id,            \* history: next projectile identity
    log,                \* history: what the last loop body did
    hit_by,             \* history: the identities of the projectiles that have hit the player
    gfx                 \* the last call of a drawing or geometry helper made on
                        \* its own: the arguments, the buffer before and after

vars == <<alien_array, death_counter, alien_animation, rockets, num_rockets,
          player, first_line_array, frame_counter, score, aliens_killed,
          move_dir, rocket_fired, game_running, window_should_close, pc,
          drawn, shown, keys, space_presses, tape, ticks, rid, next_id, log,
          hit_by, gfx>>

----------------------------------------------------------------------------
(* Program constants *)

GAME_MAX_ROCKETS == 128
ALIEN_DEAD == 0
ALIEN_TYPE_A == 1
ALIEN_TYPE_B == 2
buffer_width == 300
buffer_height == 400
alien_hoard_size == 50
FireCadence == 30
DeathFrames == 10
SpawnX == 150
SpawnY == 25
StartLives == 3

\* width and height of the sprites (the masks are not needed for collisions)
alien_sprites ==
    [k \in 0..3 |-> IF k < 2 THEN [width |-> 11, height |-> 8]
                             ELSE [width |-> 8, height |-> 8]]
alien_death_sprite == [width |-> 13, height |-> 7]
playerSprite == [width |-> 10, height |-> 10]
rocket_sprite == [width |-> 2, height |-> 5]

\* alien_animation[i]: loop, num_frames, frame_duration and frames
num_frames == 2
frame_duration == 10
AnimationFrame(type, anim) ==
    alien_sprites[2 * (type - 1) + (anim[type - 1] \div frame_duration)]

----------------------------------------------------------------------------
(* unsigned int arithmetic on signed representatives *)

\* a < b for two unsigned int values whose representatives lie in (-2^31, 2^31):
\* a negative representative stands for a value of at least 2^31
ULess(a, b) ==
    IF (a < 0) = (b < 0) THEN a < b ELSE b < 0

\* sprite_overlap_check with <= and >= in place of < and >
sprite_overlap_check_NonStrict(sp_a, x_a, y_a, sp_b, x_b, y_b) ==
    /\ ~ULess(x_b + sp_b.width, x_a)
    /\ ~ULess(x_a + sp_a.width, x_b)
    /\ ~ULess(y_b + sp_b.height, y_a)
    /\ ~ULess(y_a + sp_a.height, y_b)

\* lines 140-153
sprite_overlap_check(sp_a, x_a, y_a, sp_b, x_b, y_b) ==
    /\ ULess(x_a, x_b + sp_b.width)
    /\ ULess(x_b, x_a + sp_a.width)
    /\ ULess(y_a, y_b + sp_b.height)
    /\ ULess(y_b, y_a + sp_a.height)

----------------------------------------------------------------------------
(* The pixel buffer.  A buffer is [width, height, data], data indexed by   *)
(* 0..width*height-1; a sprite is [width, height, data], data[j*width+i]   *)
(* nonzero where the bit of column i and row j is set.                     *)

\* clear_buffer with the loop test i < width * height - 1
clear_buffer_SkipsLast(buffer, color) ==
    [buffer EXCEPT !.data = [i \in 0..(buffer.width * buffer.height - 1) |->
                                IF i < buffer.width * buffer.height - 1 THEN color
                                ELSE buffer.data[i]]]

\* lines 123-130
clear_buffer(buffer, color) ==
    [buffer EXCEPT !.data = [i \in 0..(buffer.width * buffer.height - 1) |-> color]]

\* lines 158-169: the two loops from the pass number k on, pass k being the
\* one of i = k / sprite.height and j = k % sprite.height.  x and y are
\* unsigned int, and so are xPos and yPos: the sums wrap modulo 2^32 (a
\* representative below 0 stands for a value of at least 2^31).
RECURSIVE DrawSpriteFrom(_, _, _, _, _, _)
DrawSpriteFrom(buffer, sprite, x, y, color, k) ==
    IF k >= sprite.width * sprite.height THEN buffer
    ELSE LET i == k \div sprite.height
             j == k % sprite.height
             yPos == sprite.height - 1 + y - j
             xPos == x + i
         IN IF /\ sprite.data[j * sprite.width + i] # 0
               /\ ULess(yPos, buffer.height)
               /\ ULess(xPos, buffer.width)
            THEN DrawSpriteFrom([buffer EXCEPT !.data[yPos * buffer.width + xPos] = color],
                                sprite, x, y, color, k + 1)
            ELSE DrawSpriteFrom(buffer, sprite, x, y, color, k + 1)

\* lines 156-170
DrawSprite(buffer, sprite, x, y, color) ==
    DrawSpriteFrom(buffer, sprite, x, y, color, 0)

----------------------------------------------------------------------------
(* The input tape: what the keyboard and std::rand deliver *)

\* A tape is a sequence of segments <<n, dir, fire, col>>: for n loop bodies
\* the player holds the arrow key of direction dir, presses space before each
\* of them iff fire, and std::rand() % 10 yields col.  When the tape is used
\* up the player presses escape.
SegN(s) == s[1]
SegDir(s) == s[2]
SegFire(s) == s[3]
SegCol(s) == s[4]

RECURSIVE SegAtFrom(_, _, _)
SegAtFrom(tp, k, t) ==
    IF k > Len(tp) THEN <<>>
    ELSE IF t <= SegN(tp[k]) THEN tp[k]
    ELSE SegAtFrom(tp, k + 1, t - SegN(tp[k]))

\* the segment that governs loop body number t (1, 2, ...), <<>> past the end
SegAt(tp, t) == SegAtFrom(tp, 1, t)

----------------------------------------------------------------------------
(* Steps of the loop body.  g is the record of everything the body may     *)
(* change, threaded through its loops.                                     *)

NoRocket == [x |-> 0, y |-> 0, dir |-> 0]
NoAlien == [x |-> 0, y |-> 0, type |-> ALIEN_DEAD]

\* lines 731-750: which sprite the draw loop draws for alien slot i
DrawAlien(aliens, dc, anim, i) ==
    IF dc[i] = 0 THEN "none"
    ELSE IF aliens[i].type = ALIEN_DEAD THEN "death"
    ELSE IF anim[aliens[i].type - 1] \div frame_duration = 0 THEN "frame0"
    ELSE "frame1"

\* AdvanceAnimation with the loop test i < 1: only the clock of the first
\* alien type is advanced
AdvanceAnimation_FirstClockOnly(anim) ==
    [i \in 0..1 |->
        IF i >= 1 THEN anim[i]
        ELSE IF anim[i] + 1 = num_frames * frame_duration THEN 0 ELSE anim[i] + 1]

\* lines 763-770: one clock per alien type, both advanced
AdvanceAnimation(anim) ==
    [i \in 0..1 |->
        IF anim[i] + 1 = num_frames * frame_duration THEN 0 ELSE anim[i] + 1]

\* AlienDeaths without the test of death_counter[i]: the uint8_t counter of a
\* dead alien is decremented in every loop body and wraps from 0 to 255
AlienDeaths_NoGuard(aliens, dc) ==
    [i \in 0..(alien_hoard_size - 1) |->
        IF aliens[i].type = ALIEN_DEAD THEN (dc[i] - 1) % 256 ELSE dc[i]]

\* lines 792-799
AlienDeaths(aliens, dc) ==
    [i \in 0..(alien_hoard_size - 1) |->
        IF aliens[i].type = ALIEN_DEAD /\ dc[i] # 0 THEN dc[i] - 1 ELSE dc[i]]

\* RemoveRocket without the copy of the last rocket into slot i: only
\* num_rockets is decremented
RemoveRocket_NoCopy(g, i) ==
    IF g.n = 0 THEN [g EXCEPT !.oob = TRUE]
    ELSE [g EXCEPT !.n = g.n - 1]

\* lines 809-810 and 837-838: rockets[i] = rockets[num_rockets - 1]; num_rockets--
\* With num_rockets = 0 the index num_rockets - 1 is 4294967295: a read outside
\* the array, undefined behaviour, kept as the trap g.oob.
RemoveRocket(g, i) ==
    IF g.n = 0 THEN [g EXCEPT !.oob = TRUE]
    ELSE [g EXCEPT !.rockets[i] = g.rockets[g.n - 1],
                   !.rid[i] = g.rid[g.n - 1],
                   !.n = g.n - 1]

\* AlienOverlaps with an overlap test that compares the x extents only
AlienOverlaps_IgnoresY(g, i, j0) ==
    {j \in j0..(alien_hoard_size - 1) :
        /\ g.aliens[j].type # ALIEN_DEAD
        /\ ULess(g.rockets[i].x,
                 g.aliens[j].x + AnimationFrame(g.aliens[j].type, g.anim).width)
        /\ ULess(g.aliens[j].x, g.rockets[i].x + rocket_sprite.width)}

\* line 824: the aliens from index j0 on that are not dead and whose current
\* animation frame overlaps rockets[i]
AlienOverlaps(g, i, j0) ==
    {j \in j0..(alien_hoard_size - 1) :
        /\ g.aliens[j].type # ALIEN_DEAD
        /\ sprite_overlap_check(rocket_sprite, g.rockets[i].x, g.rockets[i].y,
                                AnimationFrame(g.aliens[j].type, g.anim),
                                g.aliens[j].x, g.aliens[j].y)}

\* KillAlien without lines 837-838: the rocket stays in the array
KillAlien_KeepsRocket(g, i, j) ==
    LET a == g.aliens[j]
        sp == AnimationFrame(a.type, g.anim)
    IN [g EXCEPT
          !.score = @ + 10 * (4 - a.type),
          !.kills = @ + 1,
          !.aliens[j] = [a EXCEPT !.type = ALIEN_DEAD,
                                  !.x = a.x - ((alien_death_sprite.width - sp.width) \div 2)],
          !.lg.kills = Append(@, [alien |-> j, type |-> a.type, slot |-> i,
                                  id |-> g.rid[i], live |-> i < g.n,
                                  rocket |-> g.rockets[i], n |-> g.n])]

\* KillAlien with lines 829 and 832 exchanged: the score is computed from the
\* type after it has been set to ALIEN_DEAD
KillAlien_ScoresDeadType(g, i, j) ==
    LET a == g.aliens[j]
        sp == AnimationFrame(a.type, g.anim)
        g1 == [g EXCEPT
                 !.score = @ + 10 * (4 - ALIEN_DEAD),
                 !.kills = @ + 1,
                 !.aliens[j] = [a EXCEPT !.type = ALIEN_DEAD,
                                         !.x = a.x - ((alien_death_sprite.width - sp.width) \div 2)],
                 !.lg.kills = Append(@, [alien |-> j, type |-> a.type, slot |-> i,
                                         id |-> g.rid[i], live |-> i < g.n,
                                         rocket |-> g.rockets[i], n |-> g.n])]
    IN IF g1.n = 0 THEN [g1 EXCEPT !.oob = TRUE]
       ELSE [g1 EXCEPT !.rockets[i] = g1.rockets[g1.n - 1],
                       !.rid[i] = g1.rid[g1.n - 1],
                       !.n = g1.n - 1]

\* KillAlien without line 835: the dead alien keeps its x
KillAlien_NoRecenter(g, i, j) ==
    LET a == g.aliens[j]
        g1 == [g EXCEPT
                 !.score = @ + 10 * (4 - a.type),
                 !.kills = @ + 1,
                 !.aliens[j] = [a EXCEPT !.type = ALIEN_DEAD],
                 !.lg.kills = Append(@, [alien |-> j, type |-> a.type, slot |-> i,
                                         id |-> g.rid[i], live |-> i < g.n,
                                         rocket |-> g.rockets[i], n |-> g.n])]
    IN RemoveRocket(g1, i)

\* KillAlien without line 831: the kill is not counted
KillAlien_NoCount(g, i, j) ==
    LET a == g.aliens[j]
        sp == AnimationFrame(a.type, g.anim)
        g1 == [g EXCEPT
                 !.score = @ + 10 * (4 - a.type),
                 !.aliens[j] = [a EXCEPT !.type = ALIEN_DEAD,
                                         !.x = a.x - ((alien_death_sprite.width - sp.width) \div 2)],
                 !.lg.kills = Append(@, [alien |-> j, type |-> a.type, slot |-> i,
                                         id |-> g.rid[i], live |-> i < g.n,
                                         rocket |-> g.rockets[i], n |-> g.n])]
    IN RemoveRocket(g1, i)

\* KillAlien with a score of 20 for every alien, whatever its type
KillAlien_FlatScore(g, i, j) ==
    LET a == g.aliens[j]
        sp == AnimationFrame(a.type, g.anim)
        g1 == [g EXCEPT
                 !.score = @ + 20,
                 !.kills = @ + 1,
                 !.aliens[j] = [a EXCEPT !.type = ALIEN_DEAD,
                                         !.x = a.x - ((alien_death_sprite.width - sp.width) \div 2)],
                 !.lg.kills = Append(@, [alien |-> j, type |-> a.type, slot |-> i,
                                         id |-> g.rid[i], live |-> i < g.n,
                                         rocket |-> g.rockets[i], n |-> g.n])]
    IN RemoveRocket(g1, i)

\* lines 826-840: the body of if (overlap) for alien j and slot i
KillAlien(g, i, j) ==
    LET a == g.aliens[j]
        sp == AnimationFrame(a.type, g.anim)
        g1 == [g EXCEPT
                 !.score = @ + 10 * (4 - a.type),
                 !.kills = @ + 1,
                 !.aliens[j] = [a EXCEPT !.type = ALIEN_DEAD,
                                         !.x = a.x - ((alien_death_sprite.width - sp.width) \div 2)],
                 !.lg.kills = Append(@, [alien |-> j, type |-> a.type, slot |-> i,
                                         id |-> g.rid[i], live |-> i < g.n,
                                         rocket |-> g.rockets[i], n |-> g.n])]
    IN RemoveRocket(g1, i)

\* lines 815-841: the scan over the aliens for slot i, from alien j0 on.  The
\* continue of line 839 continues this scan, with whatever rockets[i] now holds.
RECURSIVE AlienScan(_, _, _)
AlienScan(g, i, j0) ==
    LET S == AlienOverlaps(g, i, j0)
    IN IF S = {} THEN g
       ELSE LET j == CHOOSE m \in S : \A k \in S : m <= k
                g1 == KillAlien(g, i, j)
            IN IF g1.oob THEN g1 ELSE AlienScan(g1, i, j + 1)

\* PlayerCheck without the return of lines 847-878: the player is put back at
\* the spawn point whatever the number of lives left
PlayerCheck_NoReturn(g, i) ==
    IF g.oob THEN g
    ELSE IF sprite_overlap_check(rocket_sprite, g.rockets[i].x, g.rockets[i].y,
                                 playerSprite, g.player.x, g.player.y)
    THEN [g EXCEPT !.player = [x |-> SpawnX, y |-> SpawnY, lives |-> g.player.lives - 1],
                   !.lg.hits = Append(@, [id |-> g.rid[i], slot |-> i,
                                          live |-> i < g.n, n |-> g.n,
                                          rocket |-> g.rockets[i]])]
    ELSE g

\* PlayerCheck without lines 880-881: a hit that leaves lives leaves the
\* player where the rocket found it
PlayerCheck_NoRespawn(g, i) ==
    IF g.oob THEN g
    ELSE IF sprite_overlap_check(rocket_sprite, g.rockets[i].x, g.rockets[i].y,
                                 playerSprite, g.player.x, g.player.y)
    THEN LET lives == g.player.lives - 1
             h == [id |-> g.rid[i], slot |-> i, live |-> i < g.n, n |-> g.n,
                   rocket |-> g.rockets[i]]
         IN IF lives = 0
            THEN [g EXCEPT !.player.lives = lives, !.lost = TRUE,
                           !.lg.hits = Append(@, h)]
            ELSE [g EXCEPT !.player.lives = lives,
                           !.lg.hits = Append(@, h)]
    ELSE g

\* lines 843-884: the hit test of rockets[i] against the player (nothing is
\* modelled after the undefined behaviour g.oob)
PlayerCheck(g, i) ==
    IF g.oob THEN g
    ELSE IF sprite_overlap_check(rocket_sprite, g.rockets[i].x, g.rockets[i].y,
                                 playerSprite, g.player.x, g.player.y)
    THEN LET lives == g.player.lives - 1
             h == [id |-> g.rid[i], slot |-> i, live |-> i < g.n, n |-> g.n,
                   rocket |-> g.rockets[i]]
         IN IF lives = 0
            THEN [g EXCEPT !.player.lives = lives, !.lost = TRUE,
                           !.lg.hits = Append(@, h)]
            ELSE [g EXCEPT !.player = [x |-> SpawnX, y |-> SpawnY, lives |-> lives],
                           !.lg.hits = Append(@, h)]
    ELSE g

\* OutOfField without the test against the rocket's height
OutOfField_TopOnly(y) ==
    ~ULess(y, buffer_height)

\* line 806: the rocket has left the field
OutOfField(y) ==
    \/ ~ULess(y, buffer_height)
    \/ ULess(y, rocket_sprite.height)

\* lines 803-885: one pass through the body of the loop over the rockets, for
\* slot i; nothing is done once main() has returned (g.lost) or the loop test
\* i < num_rockets has failed
RocketStep(g, i) ==
    IF g.lost \/ g.oob \/ ~(i < g.n) THEN g
    ELSE LET g1 == [g EXCEPT !.rockets[i].y = @ + g.rockets[i].dir,
                             !.lg.adv = Append(@, g.rid[i])]
         IN IF OutOfField(g.rockets[i].y + g.rockets[i].dir)
            THEN RemoveRocket([g1 EXCEPT !.lg.out = Append(@, g.rid[i])], i)
            ELSE PlayerCheck(AlienScan(g1, i, 0), i)

\* the passes for the slots lo..hi, in increasing order of the slot (split in
\* halves, the state before a half being computed before that half is
\* entered, to keep the evaluation shallow)
RECURSIVE RocketRange(_, _, _)
RocketRange(g, lo, hi) ==
    IF g.lost \/ g.oob \/ lo > hi THEN g
    ELSE IF lo = hi THEN RocketStep(g, lo)
    ELSE RocketRange(RocketRange(g, lo, (lo + hi) \div 2), (lo + hi) \div 2 + 1, hi)

\* RocketLoop with the loop starting one slot late: unsigned int i = 1
RocketLoop_FromNextSlot(g, i) ==
    RocketRange(g, i + 1, g.n - 1)

\* lines 803-885: the loop over the rockets, from slot i on; num_rockets does
\* not grow inside the loop, so no slot beyond the last one at its start is
\* visited
RocketLoop(g, i) ==
    RocketRange(g, i, g.n - 1)

\* MovePlayer without the cast to int of line 930: the left boundary test is
\* made on unsigned int values, as the right one is
MovePlayer_UnsignedLeft(x, md) ==
    LET player_move_dir == 2 * md
    IN IF player_move_dir = 0 THEN x
       ELSE IF ~ULess(x + playerSprite.width + player_move_dir, buffer_width)
            THEN buffer_width - playerSprite.width
       ELSE IF ~ULess(0, x + player_move_dir) THEN 0
       ELSE x + player_move_dir

\* lines 918-938: the player's x after the lateral movement
MovePlayer(x, md) ==
    LET player_move_dir == 2 * md
    IN IF player_move_dir = 0 THEN x
       ELSE IF ~ULess(x + playerSprite.width + player_move_dir, buffer_width)
            THEN buffer_width - playerSprite.width
       ELSE IF x + player_move_dir <= 0 THEN 0
       ELSE x + player_move_dir

\* FirstLine with the rows of a column scanned from the back
FirstLine_FromBack(aliens) ==
    [i \in 0..9 |->
        LET T == {j \in 0..4 : aliens[i + 10 * j].type # ALIEN_DEAD}
        IN IF T # {} THEN aliens[i + 10 * (CHOOSE m \in T : \A k \in T : m >= k)]
           ELSE aliens[i + 40]]

\* lines 942-972: the first line of the formation
FirstLine(aliens) ==
    [i \in 0..9 |->
        IF aliens[i].type # ALIEN_DEAD THEN aliens[i]
        ELSE LET T == {j \in 1..4 : aliens[i + 10 * j].type # ALIEN_DEAD}
             IN IF T # {} THEN aliens[i + 10 * (CHOOSE m \in T : \A k \in T : m <= k)]
                ELSE aliens[i + 40]]

----------------------------------------------------------------------------
(* The input tapes and the bounds of the model *)

\* no session runs more loop bodies than this
MaxTicks == 420

\* the player walks right for 0..MaxWalk loop bodies before stopping
MaxWalk == 4

\* the player then presses space before each of 0..MaxShots loop bodies
MaxShots == 3

\* and then waits for MaxWait loop bodies
MaxWait == 125

Idle(n, col) == <<n, 0, FALSE, col>>

\* walk right for a loop bodies, fire f times standing still, then wait; the
\* aliens' shots come from column col
WalkAndShoot(a, f, col) ==
    <<Idle(1, col), <<a, 1, FALSE, col>>, <<f, 0, TRUE, col>>, Idle(MaxWait, col)>>

\* the player steps under column 5 and is hit three times by its shots
LossTape ==
    <<Idle(1, 5), <<3, 1, FALSE, 5>>, Idle(95, 5), <<6, 1, FALSE, 5>>, Idle(40, 5)>>

\* one sweep to the right and back that shoots five times under every column
SweepRight ==
    <<<<5, 1, TRUE, 0>>, <<8, 1, FALSE, 0>>, <<5, 1, TRUE, 0>>, <<8, 1, FALSE, 0>>,
      <<5, 1, TRUE, 0>>, <<8, 1, FALSE, 0>>, <<5, 1, TRUE, 0>>, <<8, 1, FALSE, 0>>,
      <<5, 1, TRUE, 0>>, <<4, -1, TRUE, 0>>>>

SweepLeft(col) ==
    <<<<8, -1, FALSE, col>>, <<5, -1, TRUE, col>>>>

\* the player kills all fifty aliens; an alien shot is still in flight
WinTape ==
    <<Idle(1, 0), <<1, 1, FALSE, 0>>>> \o SweepRight
    \o SweepLeft(0) \o SweepLeft(0) \o <<<<8, -1, FALSE, 0>>, <<3, -1, TRUE, 0>>, <<2, -1, TRUE, 5>>>>
    \o SweepLeft(5) \o SweepLeft(5) \o SweepLeft(5) \o SweepLeft(5) \o SweepLeft(5)
    \o SweepLeft(5) \o <<Idle(60, 5), Idle(61, 0)>>

\* the player loses two lives under column 5, sweeps the formation, and steps
\* under the shot of column 0 in the loop body before the last alien is killed
WinLossTape ==
    <<Idle(1, 5), <<3, 1, FALSE, 5>>, Idle(26, 5), Idle(69, 0), <<3, 1, FALSE, 5>>,
      Idle(19, 5), <<1, 1, FALSE, 5>>,
      <<5, 1, TRUE, 5>>, <<8, 1, FALSE, 5>>, <<5, 1, TRUE, 5>>, <<8, 1, FALSE, 5>>,
      <<5, 1, TRUE, 5>>, <<8, 1, FALSE, 5>>, <<5, 1, TRUE, 5>>, <<8, 1, FALSE, 5>>,
      <<5, 1, TRUE, 5>>, <<4, -1, TRUE, 5>>>>
    \o SweepLeft(5) \o SweepLeft(5) \o SweepLeft(5) \o SweepLeft(5) \o SweepLeft(5)
    \o SweepLeft(5) \o SweepLeft(5) \o SweepLeft(5)
    \o <<<<8, -1, FALSE, 5>>, <<4, -1, TRUE, 5>>, <<1, -1, TRUE, 0>>,
          Idle(29, 5), Idle(1, 0), Idle(74, 5), <<1, 1, FALSE, 5>>, Idle(26, 5)>>

\* the player shoots almost without pause, first at the columns and from loop
\* body 232 on between two columns: after the rocket loop of loop body 360 the
\* array holds 125 rockets of the player and 3 of the aliens
FullPoolTape ==
    <<Idle(1, 5), <<2, 0, TRUE, 5>>, Idle(2, 5), <<35, 0, TRUE, 5>>,
      <<3, 1, TRUE, 2>>, <<34, 0, TRUE, 2>>, Idle(1, 2), <<78, 0, TRUE, 2>>,
      Idle(2, 2), <<6, -1, FALSE, 2>>, <<8, 0, TRUE, 2>>, <<12, -1, TRUE, 2>>,
      <<22, 0, TRUE, 2>>, <<15, -1, TRUE, 2>>,
      <<10, 1, FALSE, 5>>, <<19, 0, TRUE, 5>>, <<30, 0, TRUE, 4>>, <<80, 0, TRUE, 9>>,
      Idle(35, 9)>>

\* the player's rocket kills the front alien of column 5 in loop body 90, in
\* which the aliens shoot from column 5 and the player steps right and shoots
KillAtFireTape ==
    <<Idle(1, 5), <<3, 1, FALSE, 5>>, Idle(14, 5), <<1, 0, TRUE, 5>>, Idle(70, 5),
      <<1, 1, TRUE, 5>>, Idle(5, 5)>>

\* the player walks to the right edge of the field, pushes against it, and
\* walks back to the left edge
EdgeTape ==
    <<Idle(1, 0), <<73, 1, FALSE, 0>>, Idle(2, 0), <<148, -1, FALSE, 0>>, Idle(2, 0)>>

InputTapes ==
    {WalkAndShoot(a, f, col) : a \in 0..MaxWalk, f \in 0..MaxShots, col \in {5}}
    \cup {LossTape, WinTape, WinLossTape, FullPoolTape, KillAtFireTape, EdgeTape}

----------------------------------------------------------------------------
(* The state after construction: lines 640-704, and the globals of lines   *)
(* 27-33.                                                                  *)

\* lines 679-695
InitialAlien(k) ==
    LET j == k \div 10
        i == k % 10
    IN [type |-> IF j * 10 + 1 < 20 THEN ALIEN_TYPE_A ELSE ALIEN_TYPE_B,
        x |-> 30 + i * (11 + 15),
        y |-> 250 + j * (8 + 15)]

NewLog ==
    [lives0 |-> StartLives, start_ids |-> <<>>, adv |-> <<>>, out |-> <<>>, kills |-> <<>>, hits |-> <<>>,
     reached |-> FALSE, due |-> FALSE, rand |-> 0, alien_shot |-> <<>>,
     latched |-> FALSE, player_shot |-> <<>>, end |-> "none"]

\* no helper has been called on its own
NoCall == [op |-> "none"]

\* lines 644-703 and the globals of lines 29-33: the state before the first
\* loop test, with the input tape one of tapes and gfx one of calls
Start(tapes, calls) ==
    /\ alien_array = [k \in 0..(alien_hoard_size - 1) |-> InitialAlien(k)]
    /\ death_counter = [k \in 0..(alien_hoard_size - 1) |-> DeathFrames]
    /\ alien_animation = [i \in 0..1 |-> 0]
    \* rockets and first_line_array are not initialized by the code; no element
    \* is read before the loop body has written it
    /\ rockets = [k \in 0..(GAME_MAX_ROCKETS - 1) |-> NoRocket]
    /\ first_line_array = [c \in 0..9 |-> NoAlien]
    /\ num_rockets = 0
    /\ player = [x |-> SpawnX, y |-> SpawnY, lives |-> StartLives]
    /\ frame_counter = 0
    /\ score = 0
    /\ aliens_killed = 0
    /\ move_dir = 0
    /\ rocket_fired = FALSE
    /\ game_running = TRUE
    /\ window_should_close = FALSE
    /\ pc = "loop"
    /\ drawn = [k \in 0..(alien_hoard_size - 1) |-> "none"]
    /\ shown = [k \in 0..(alien_hoard_size - 1) |-> 0]
    /\ keys = [left |-> FALSE, right |-> FALSE]
    /\ space_presses = 0
    /\ tape \in tapes
    /\ ticks = 0
    /\ rid = [k \in 0..(GAME_MAX_ROCKETS - 1) |-> 0]
    /\ next_id = 1
    /\ log = NewLog
    /\ hit_by = {}
    /\ gfx \in calls

Init ==
    Start(InputTapes, {NoCall})

----------------------------------------------------------------------------
(* The loop body, lines 710-1003 *)

\* AlienFire with the direction of the player's rockets
AlienFire_PositiveDir(r, fl, rnd) ==
    LET fc == r.frame_counter + 1
        r1 == [r EXCEPT !.frame_counter = fc,
                        !.lg.reached = (fc = FireCadence),
                        !.lg.rand = rnd]
    IN IF fc = FireCadence /\ r.n < GAME_MAX_ROCKETS
       THEN IF fl[rnd].type # ALIEN_DEAD
            THEN LET rk == [x |-> fl[rnd].x + 4, y |-> fl[rnd].y - 10, dir |-> 3]
                 IN [r1 EXCEPT !.rockets[r.n] = rk,
                               !.rid[r.n] = r.next_id,
                               !.next_id = @ + 1,
                               !.n = @ + 1,
                               !.frame_counter = 0,
                               !.lg.due = TRUE,
                               !.lg.alien_shot = <<[col |-> rnd, id |-> r.next_id, rocket |-> rk]>>]
            ELSE [r1 EXCEPT !.frame_counter = 0, !.lg.due = TRUE]
       ELSE r1

\* AlienFire without the test of the representative's type
AlienFire_IgnoresDead(r, fl, rnd) ==
    LET fc == r.frame_counter + 1
        r1 == [r EXCEPT !.frame_counter = fc,
                        !.lg.reached = (fc = FireCadence),
                        !.lg.rand = rnd]
    IN IF fc = FireCadence /\ r.n < GAME_MAX_ROCKETS
       THEN LET rk == [x |-> fl[rnd].x + 4, y |-> fl[rnd].y - 10, dir |-> -3]
            IN [r1 EXCEPT !.rockets[r.n] = rk,
                          !.rid[r.n] = r.next_id,
                          !.next_id = @ + 1,
                          !.n = @ + 1,
                          !.frame_counter = 0,
                          !.lg.due = TRUE,
                          !.lg.alien_shot = <<[col |-> rnd, id |-> r.next_id, rocket |-> rk]>>]
       ELSE r1

\* AlienFire with the capacity test num_rockets <= GAME_MAX_ROCKETS
AlienFire_OffByOne(r, fl, rnd) ==
    LET fc == r.frame_counter + 1
        r1 == [r EXCEPT !.frame_counter = fc,
                        !.lg.reached = (fc = FireCadence),
                        !.lg.rand = rnd]
    IN IF fc = FireCadence /\ r.n <= GAME_MAX_ROCKETS
       THEN IF fl[rnd].type # ALIEN_DEAD
            THEN LET rk == [x |-> fl[rnd].x + 4, y |-> fl[rnd].y - 10, dir |-> -3]
                 IN [r1 EXCEPT !.rockets[r.n] = rk,
                               !.rid[r.n] = r.next_id,
                               !.next_id = @ + 1,
                               !.n = @ + 1,
                               !.frame_counter = 0,
                               !.lg.due = TRUE,
                               !.lg.alien_shot = <<[col |-> rnd, id |-> r.next_id, rocket |-> rk]>>]
            ELSE [r1 EXCEPT !.frame_counter = 0, !.lg.due = TRUE]
       ELSE r1

\* AlienFire without the - 10 of line 985: the rocket starts at the y of
\* the alien that fires it
AlienFire_AtAlienY(r, fl, rnd) ==
    LET fc == r.frame_counter + 1
        r1 == [r EXCEPT !.frame_counter = fc,
                        !.lg.reached = (fc = FireCadence),
                        !.lg.rand = rnd]
    IN IF fc = FireCadence /\ r.n < GAME_MAX_ROCKETS
       THEN IF fl[rnd].type # ALIEN_DEAD
            THEN LET rk == [x |-> fl[rnd].x + 4, y |-> fl[rnd].y, dir |-> -3]
                 IN [r1 EXCEPT !.rockets[r.n] = rk,
                               !.rid[r.n] = r.next_id,
                               !.next_id = @ + 1,
                               !.n = @ + 1,
                               !.frame_counter = 0,
                               !.lg.due = TRUE,
                               !.lg.alien_shot = <<[col |-> rnd, id |-> r.next_id, rocket |-> rk]>>]
            ELSE [r1 EXCEPT !.frame_counter = 0, !.lg.due = TRUE]
       ELSE r1

\* lines 975-991: the aliens' shot.  r carries rockets, rid, n, frame_counter,
\* next_id and the log
AlienFire(r, fl, rnd) ==
    LET fc == r.frame_counter + 1
        r1 == [r EXCEPT !.frame_counter = fc,
                        !.lg.reached = (fc = FireCadence),
                        !.lg.rand = rnd]
    IN IF fc = FireCadence /\ r.n < GAME_MAX_ROCKETS
       THEN IF fl[rnd].type # ALIEN_DEAD
            THEN LET rk == [x |-> fl[rnd].x + 4, y |-> fl[rnd].y - 10, dir |-> -3]
                 IN [r1 EXCEPT !.rockets[r.n] = rk,
                               !.rid[r.n] = r.next_id,
                               !.next_id = @ + 1,
                               !.n = @ + 1,
                               !.frame_counter = 0,
                               !.lg.due = TRUE,
                               !.lg.alien_shot = <<[col |-> rnd, id |-> r.next_id, rocket |-> rk]>>]
            ELSE [r1 EXCEPT !.frame_counter = 0, !.lg.due = TRUE]
       ELSE r1

\* PlayerFire that, when the array is full, puts the new rocket in the last slot
PlayerFire_Overwrite(r, pl, fired) ==
    LET r1 == [r EXCEPT !.lg.latched = fired]
        rk == [x |-> pl.x + (playerSprite.width \div 2),
               y |-> pl.y + playerSprite.height, dir |-> 3]
        at == IF r.n < GAME_MAX_ROCKETS THEN r.n ELSE GAME_MAX_ROCKETS - 1
    IN IF fired
       THEN [r1 EXCEPT !.rockets[at] = rk,
                       !.rid[at] = r.next_id,
                       !.next_id = @ + 1,
                       !.n = at + 1,
                       !.lg.player_shot = <<[id |-> r.next_id, rocket |-> rk]>>]
       ELSE r1

\* PlayerFire without the + playerSprite.height of line 998: the rocket starts
\* at the player's y
PlayerFire_AtPlayerY(r, pl, fired) ==
    LET r1 == [r EXCEPT !.lg.latched = fired]
    IN IF fired /\ r.n < GAME_MAX_ROCKETS
       THEN LET rk == [x |-> pl.x + (playerSprite.width \div 2),
                       y |-> pl.y, dir |-> 3]
            IN [r1 EXCEPT !.rockets[r.n] = rk,
                          !.rid[r.n] = r.next_id,
                          !.next_id = @ + 1,
                          !.n = @ + 1,
                          !.lg.player_shot = <<[id |-> r.next_id, rocket |-> rk]>>]
       ELSE r1

\* PlayerFire with the top of the rocket, not its bottom, at the top of the
\* player: y is player.y + playerSprite.height - rocket_sprite.height
PlayerFire_TopAligned(r, pl, fired) ==
    LET r1 == [r EXCEPT !.lg.latched = fired]
    IN IF fired /\ r.n < GAME_MAX_ROCKETS
       THEN LET rk == [x |-> pl.x + (playerSprite.width \div 2),
                       y |-> pl.y + playerSprite.height - rocket_sprite.height,
                       dir |-> 3]
            IN [r1 EXCEPT !.rockets[r.n] = rk,
                          !.rid[r.n] = r.next_id,
                          !.next_id = @ + 1,
                          !.n = @ + 1,
                          !.lg.player_shot = <<[id |-> r.next_id, rocket |-> rk]>>]
       ELSE r1

\* lines 995-1003: the player's shot
PlayerFire(r, pl, fired) ==
    LET r1 == [r EXCEPT !.lg.latched = fired]
    IN IF fired /\ r.n < GAME_MAX_ROCKETS
       THEN LET rk == [x |-> pl.x + (playerSprite.width \div 2),
                       y |-> pl.y + playerSprite.height, dir |-> 3]
            IN [r1 EXCEPT !.rockets[r.n] = rk,
                          !.rid[r.n] = r.next_id,
                          !.next_id = @ + 1,
                          !.n = @ + 1,
                          !.lg.player_shot = <<[id |-> r.next_id, rocket |-> rk]>>]
       ELSE r1

\* EndOfLoop with the win test made before the loss is acted on
EndOfLoop_WinFirst(g) ==
    IF g.oob THEN "ub"
    ELSE IF g.kills = 50 THEN "won"
    ELSE IF g.lost THEN "lost"
    ELSE "none"

\* how the loop body ends: return 0 of line 877 inside the rocket loop, the
\* win test of line 888 after it, or neither
EndOfLoop(g) ==
    IF g.oob THEN "ub"
    ELSE IF g.lost THEN "lost"
    ELSE IF g.kills = 50 THEN "won"
    ELSE "none"

\* lines 888-1003: the loop body after the rocket loop has produced g.  On a
\* loss or a win main() returns and nothing below line 915 is executed.
AfterRocketLoop(g, end, fc, nid, md, fired, rnd) ==
    LET r0 == [rockets |-> g.rockets, rid |-> g.rid, n |-> g.n,
               frame_counter |-> fc, next_id |-> nid,
               lg |-> [g.lg EXCEPT !.end = end]]
    IN IF end = "none"
       THEN LET pl == [g.player EXCEPT !.x = MovePlayer(g.player.x, md)]
                fl == FirstLine(g.aliens)
            IN [end |-> end, aliens |-> g.aliens, score |-> g.score, kills |-> g.kills,
                player |-> pl, first_line |-> <<fl>>,
                r |-> PlayerFire(AlienFire(r0, fl, rnd), pl, fired)]
       ELSE [end |-> end, aliens |-> g.aliens, score |-> g.score, kills |-> g.kills,
             player |-> g.player, first_line |-> <<>>, r |-> r0]

\* LoopBody with the aliens' shot taken from the first line of the formation
\* as it was before the rocket loop, and the player's shot from the player's
\* position before the movement
LoopBody_FireFromOldState(g0, fc, nid, md, fired, rnd) ==
    LET Fire(g, b) ==
            IF b.end = "none"
            THEN [b EXCEPT !.r = PlayerFire(
                                    AlienFire([rockets |-> g.rockets, rid |-> g.rid, n |-> g.n,
                                               frame_counter |-> fc, next_id |-> nid,
                                               lg |-> [g.lg EXCEPT !.end = "none"]],
                                              FirstLine(g0.aliens), rnd),
                                    g.player, fired)]
            ELSE b
        Rest(g) == Fire(g, AfterRocketLoop(g, EndOfLoop(g), fc, nid, md, fired, rnd))
    IN Rest(RocketLoop(g0, 0))

\* lines 803-1003 from the state at line 803: the rocket loop and what follows
LoopBody(g0, fc, nid, md, fired, rnd) ==
    LET Rest(g) == AfterRocketLoop(g, EndOfLoop(g), fc, nid, md, fired, rnd)
    IN Rest(RocketLoop(g0, 0))

\* Store without line 1003: the latch rocket_fired is left as it is
Store_KeepsLatch(b) ==
    /\ alien_array' = b.aliens
    /\ score' = b.score
    /\ aliens_killed' = b.kills
    /\ rockets' = b.r.rockets
    /\ rid' = b.r.rid
    /\ num_rockets' = b.r.n
    /\ next_id' = b.r.next_id
    /\ frame_counter' = b.r.frame_counter
    /\ log' = b.r.lg
    /\ hit_by' = hit_by \cup {b.r.lg.hits[m].id : m \in 1..Len(b.r.lg.hits)}
    /\ player' = b.player
    /\ first_line_array' = IF b.end = "none" THEN b.first_line[1] ELSE first_line_array
    /\ rocket_fired' = rocket_fired
    /\ pc' = IF b.end = "none" THEN "poll" ELSE b.end

\* the loop body leaves the program in the state b
Store(b) ==
    /\ alien_array' = b.aliens
    /\ score' = b.score
    /\ aliens_killed' = b.kills
    /\ rockets' = b.r.rockets
    /\ rid' = b.r.rid
    /\ num_rockets' = b.r.n
    /\ next_id' = b.r.next_id
    /\ frame_counter' = b.r.frame_counter
    /\ log' = b.r.lg
    /\ hit_by' = hit_by \cup {b.r.lg.hits[m].id : m \in 1..Len(b.r.lg.hits)}
    /\ player' = b.player
    /\ first_line_array' = IF b.end = "none" THEN b.first_line[1] ELSE first_line_array
    /\ rocket_fired' = IF b.end = "none" THEN FALSE ELSE rocket_fired
    /\ pc' = IF b.end = "none" THEN "poll" ELSE b.end

\* the identities of the projectiles in b taken in 1..m, or as they are when
\* m = 0 (identities are history; in a session without end they are used
\* again, to keep the states finite in number)
WrapIds(b, m) ==
    IF m = 0 THEN b
    ELSE [b EXCEPT !.r.next_id = ((@ - 1) % m) + 1,
                   !.r.rid = [k \in 0..(GAME_MAX_ROCKETS - 1) |->
                                 IF b.r.rid[k] = 0 THEN 0 ELSE ((b.r.rid[k] - 1) % m) + 1]]

\* lines 710-1003: one pass through the body of the loop, the count of the
\* loop bodies becoming t1
LoopPass(t1, m) ==
    /\ pc = "loop"
    /\ game_running /\ ~window_should_close
    /\ LET seg == SegAt(tape, ticks + 1)
           anim == AdvanceAnimation(alien_animation)
           g0 == [aliens |-> alien_array, anim |-> anim, rockets |-> rockets,
                  rid |-> rid, n |-> num_rockets, player |-> player,
                  score |-> score, kills |-> aliens_killed,
                  lost |-> FALSE, oob |-> FALSE,
                  lg |-> [NewLog EXCEPT
                            !.lives0 = player.lives,
                            !.start_ids = [k \in 1..num_rockets |-> rid[k - 1]]]]
       IN /\ drawn' = [i \in 0..(alien_hoard_size - 1) |->
                          DrawAlien(alien_array, death_counter, alien_animation, i)]
          /\ shown' = [i \in 0..(alien_hoard_size - 1) |->
                          IF DrawAlien(alien_array, death_counter, alien_animation, i) = "death"
                          THEN shown[i] + 1 ELSE shown[i]]
          /\ alien_animation' = anim
          /\ death_counter' = AlienDeaths(alien_array, death_counter)
          /\ Store(WrapIds(LoopBody(g0, frame_counter, next_id, move_dir, rocket_fired,
                                    IF seg = <<>> THEN 0 ELSE SegCol(seg)), m))
          /\ ticks' = t1
          /\ UNCHANGED <<move_dir, game_running, window_should_close, keys,
                         space_presses, tape, gfx>>

Tick ==
    /\ ticks < MaxTicks
    /\ LoopPass(ticks + 1, 0)

----------------------------------------------------------------------------
(* glfwPollEvents, line 1008, and key_callback, lines 40-67 *)

\* key_callback with the test of line 45 on GLFW_RELEASE: the press of escape
\* leaves game_running alone
key_callback_EscapeOnRelease(k, key, action) ==
    IF key = "ESCAPE"
    THEN IF action = "RELEASE" THEN [k EXCEPT !.game_running = FALSE] ELSE k
    ELSE IF key = "RIGHT"
    THEN IF action = "PRESS" THEN [k EXCEPT !.move_dir = @ + 1]
         ELSE IF action = "RELEASE" THEN [k EXCEPT !.move_dir = @ - 1]
         ELSE k
    ELSE IF key = "LEFT"
    THEN IF action = "PRESS" THEN [k EXCEPT !.move_dir = @ - 1]
         ELSE IF action = "RELEASE" THEN [k EXCEPT !.move_dir = @ + 1]
         ELSE k
    ELSE IF key = "SPACE"
    THEN IF action = "PRESS" THEN [k EXCEPT !.rocket_fired = TRUE] ELSE k
    ELSE k

\* key_callback with the release of the left arrow subtracting 1 as its press
\* does
key_callback_LeftReleaseSubtracts(k, key, action) ==
    IF key = "ESCAPE"
    THEN IF action = "PRESS" THEN [k EXCEPT !.game_running = FALSE] ELSE k
    ELSE IF key = "RIGHT"
    THEN IF action = "PRESS" THEN [k EXCEPT !.move_dir = @ + 1]
         ELSE IF action = "RELEASE" THEN [k EXCEPT !.move_dir = @ - 1]
         ELSE k
    ELSE IF key = "LEFT"
    THEN IF action = "PRESS" THEN [k EXCEPT !.move_dir = @ - 1]
         ELSE IF action = "RELEASE" THEN [k EXCEPT !.move_dir = @ - 1]
         ELSE k
    ELSE IF key = "SPACE"
    THEN IF action = "PRESS" THEN [k EXCEPT !.rocket_fired = TRUE] ELSE k
    ELSE k

\* k is the record of the three globals the callback may change
key_callback(k, key, action) ==
    IF key = "ESCAPE"
    THEN IF action = "PRESS" THEN [k EXCEPT !.game_running = FALSE] ELSE k
    ELSE IF key = "RIGHT"
    THEN IF action = "PRESS" THEN [k EXCEPT !.move_dir = @ + 1]
         ELSE IF action = "RELEASE" THEN [k EXCEPT !.move_dir = @ - 1]
         ELSE k
    ELSE IF key = "LEFT"
    THEN IF action = "PRESS" THEN [k EXCEPT !.move_dir = @ - 1]
         ELSE IF action = "RELEASE" THEN [k EXCEPT !.move_dir = @ + 1]
         ELSE k
    ELSE IF key = "SPACE"
    THEN IF action = "PRESS" THEN [k EXCEPT !.rocket_fired = TRUE] ELSE k
    ELSE k

RECURSIVE Deliver(_, _)
Deliver(k, evs) ==
    IF evs = <<>> THEN k
    ELSE Deliver(key_callback(k, Head(evs)[1], Head(evs)[2]), Tail(evs))

\* the key events that take the arrow keys from the held state ks to holding
\* the arrow of direction dir only
ArrowEvents(ks, dir) ==
    (IF ks.left /\ dir # -1 THEN <<<<"LEFT", "RELEASE">>>> ELSE <<>>)
    \o (IF ks.right /\ dir # 1 THEN <<<<"RIGHT", "RELEASE">>>> ELSE <<>>)
    \o (IF ~ks.right /\ dir = 1 THEN <<<<"RIGHT", "PRESS">>>> ELSE <<>>)
    \o (IF ~ks.left /\ dir = -1 THEN <<<<"LEFT", "PRESS">>>> ELSE <<>>)

\* the events the tape delivers before loop body number t
TapeEvents(ks, tp, t) ==
    LET seg == SegAt(tp, t)
    IN IF seg = <<>> THEN <<<<"ESCAPE", "PRESS">>>>
       ELSE ArrowEvents(ks, SegDir(seg))
            \o (IF SegFire(seg) THEN <<<<"SPACE", "PRESS">>, <<"SPACE", "RELEASE">>>>
                ELSE <<>>)

\* besides the tape, the user may at any time press escape or another key, or
\* close the window, and may press space a second time where the tape has a
\* press of space
PollEvents ==
    /\ pc = "poll"
    /\ \E extra \in {"none", "ESCAPE", "F1", "close", "SPACE"} :
         LET seg == SegAt(tape, ticks + 1)
             evs == TapeEvents(keys, tape, ticks + 1)
                    \o (IF extra \in {"ESCAPE", "F1"} THEN <<<<extra, "PRESS">>>>
                        ELSE IF extra = "SPACE"
                             THEN <<<<"SPACE", "PRESS">>, <<"SPACE", "RELEASE">>>>
                        ELSE <<>>)
             k == Deliver([move_dir |-> move_dir, rocket_fired |-> rocket_fired,
                           game_running |-> game_running], evs)
         IN /\ extra = "SPACE" => (seg # <<>> /\ SegFire(seg))
            /\ space_presses' = Cardinality({m \in 1..Len(evs) : evs[m] = <<"SPACE", "PRESS">>})
            /\ move_dir' = k.move_dir
            /\ rocket_fired' = k.rocket_fired
            /\ game_running' = k.game_running
            /\ window_should_close' = (extra = "close")
            /\ keys' = IF seg = <<>> THEN keys
                       ELSE [left |-> SegDir(seg) = -1, right |-> SegDir(seg) = 1]
    /\ pc' = "loop"
    /\ UNCHANGED <<alien_array, death_counter, alien_animation, rockets, num_rockets,
                   player, first_line_array, frame_counter, score, aliens_killed,
                   drawn, shown, tape, ticks, rid, next_id, log, hit_by, gfx>>

\* line 710: the loop test fails; lines 1011-1038
Exit ==
    /\ pc = "loop"
    /\ ~game_running \/ window_should_close
    /\ pc' = "quit"
    /\ UNCHANGED <<alien_array, death_counter, alien_animation, rockets, num_rockets,
                   player, first_line_array, frame_counter, score, aliens_killed,
                   move_dir, rocket_fired, game_running, window_should_close,
                   drawn, shown, keys, space_presses, tape, ticks, rid, next_id, log,
                   hit_by, gfx>>

Next == Tick \/ PollEvents \/ Exit

Spec == Init /\ [][Next]_vars

----------------------------------------------------------------------------
(* The helpers of lines 122-170 called on their own, on small buffers,     *)
(* sprites and positions                                                   *)

\* buffers are of width and height 1..MaxBuf
MaxBuf == 2

\* sprites are of width and height 1..MaxSprite
MaxSprite == 2

\* DrawSprite is called with x and y at most MaxAnchor away from 0 on either
\* side: the unsigned int values 0..MaxAnchor and 2^32 - MaxAnchor..2^32 - 1
MaxAnchor == 2

\* sprite_overlap_check is called with positions 0..MaxPos
MaxPos == 3

\* no call has a buffer
NoBuffer == [width |-> 0, height |-> 0, data |-> <<>>]

\* the buffers DrawSprite and clear_buffer are called on: cells of colors 0
\* and 1 in turn
InitialBuffers ==
    {[width |-> w, height |-> h, data |-> [c \in 0..(w * h - 1) |-> (c + s) % 2]] :
        w \in 1..MaxBuf, h \in 1..MaxBuf, s \in 0..1}

\* every mask of every size
Sprites ==
    UNION {{[width |-> w, height |-> h, data |-> d] : d \in [0..(w * h - 1) -> {0, 1}]} :
              <<w, h>> \in (1..MaxSprite) \X (1..MaxSprite)}

\* a color some cells hold already and one no cell holds
DrawColors == {1, 2}

\* sizes of the boxes given to sprite_overlap_check (the data is not read)
Boxes ==
    {[width |-> w, height |-> h] : w \in 1..MaxSprite, h \in 1..MaxSprite}

InitGfx ==
    Start({LossTape},
          {[op |-> "init", prev |-> b, buf |-> b, arg |-> <<>>, res |-> <<>>] :
              b \in InitialBuffers})

CallDrawSprite ==
    /\ gfx.op = "init"
    /\ \E sprite \in Sprites, x \in (-MaxAnchor)..MaxAnchor,
          y \in (-MaxAnchor)..MaxAnchor, color \in DrawColors :
         gfx' = [op |-> "DrawSprite", prev |-> gfx.buf,
                 buf |-> DrawSprite(gfx.buf, sprite, x, y, color),
                 arg |-> [sprite |-> sprite, x |-> x, y |-> y, color |-> color],
                 res |-> <<>>]
    /\ UNCHANGED <<alien_array, death_counter, alien_animation, rockets, num_rockets,
                   player, first_line_array, frame_counter, score, aliens_killed,
                   move_dir, rocket_fired, game_running, window_should_close, pc,
                   drawn, shown, keys, space_presses, tape, ticks, rid, next_id, log,
                   hit_by>>

\* clear_buffer, and clear_buffer once more with the same color
CallClearBuffer ==
    /\ \/ gfx.op = "init"
       \/ gfx.op = "clear_buffer" /\ gfx.arg.calls = 1
    /\ \E color \in 0..2 :
         /\ gfx.op = "clear_buffer" => color = gfx.arg.color
         /\ gfx' = [op |-> "clear_buffer", prev |-> gfx.buf,
                    buf |-> clear_buffer(gfx.buf, color),
                    arg |-> [color |-> color,
                             calls |-> IF gfx.op = "init" THEN 1 ELSE 2],
                    res |-> <<>>]
    /\ UNCHANGED <<alien_array, death_counter, alien_animation, rockets, num_rockets,
                   player, first_line_array, frame_counter, score, aliens_killed,
                   move_dir, rocket_fired, game_running, window_should_close, pc,
                   drawn, shown, keys, space_presses, tape, ticks, rid, next_id, log,
                   hit_by>>

\* sprite_overlap_check on two boxes, and on the same two boxes exchanged
CallOverlapCheck ==
    /\ gfx.op = "init"
    /\ \E sp_a \in Boxes, sp_b \in Boxes, x_a \in 0..MaxPos, y_a \in 0..MaxPos,
          x_b \in 0..MaxPos, y_b \in 0..MaxPos :
         gfx' = [op |-> "sprite_overlap_check", prev |-> NoBuffer, buf |-> NoBuffer,
                 arg |-> [sp_a |-> sp_a, x_a |-> x_a, y_a |-> y_a,
                          sp_b |-> sp_b, x_b |-> x_b, y_b |-> y_b],
                 res |-> <<sprite_overlap_check(sp_a, x_a, y_a, sp_b, x_b, y_b),
                           sprite_overlap_check(sp_b, x_b, y_b, sp_a, x_a, y_a)>>]
    /\ UNCHANGED <<alien_array, death_counter, alien_animation, rockets, num_rockets,
                   player, first_line_array, frame_counter, score, aliens_killed,
                   move_dir, rocket_fired, game_running, window_should_close, pc,
                   drawn, shown, keys, space_presses, tape, ticks, rid, next_id, log,
                   hit_by>>

NextGfx == CallDrawSprite \/ CallClearBuffer \/ CallOverlapCheck

SpecGfx == InitGfx /\ [][NextGfx]_vars

----------------------------------------------------------------------------
(* A session without end: the player repeats the keys of the tape for as   *)
(* long as the loop runs.                                                  *)

\* in a session without end the identities of the projectiles are 1..IdSpace
IdSpace == 32

\* the number of loop bodies of a tape
RECURSIVE TapeTicks(_)
TapeTicks(tp) ==
    IF tp = <<>> THEN 0 ELSE SegN(Head(tp)) + TapeTicks(Tail(tp))

\* the player stands at the spawn point and shoots twice in every 30 loop
\* bodies; the shots pass between columns 4 and 5 and leave the field at the
\* top, the aliens' shots from column col miss the player
GapTape(col) ==
    <<Idle(1, col), <<1, 0, TRUE, col>>, Idle(6, col), <<1, 0, TRUE, col>>, Idle(21, col)>>

\* the player takes two steps to the right and shoots once in every 30 loop
\* bodies, up to the right edge of the field: the shots kill aliens of the
\* columns the player passes under, or leave the field at the top
StepTape ==
    <<Idle(1, 0), <<2, 1, FALSE, 0>>, <<1, 0, TRUE, 0>>, Idle(26, 0)>>

\* the player walks to and fro between the spawn point and a place under
\* the shots of column 5, and is hit there
HitTape ==
    <<Idle(1, 5), <<3, 1, FALSE, 5>>, Idle(26, 5), <<3, -1, FALSE, 5>>, Idle(27, 5)>>

LiveTapes ==
    {GapTape(5), StepTape, HitTape}

InitLive ==
    Start(LiveTapes, {NoCall})

\* the loop body, the tape starting again when it is used up
TickAgain ==
    LoopPass((ticks + 1) % TapeTicks(tape), IdSpace)

NextLive == TickAgain \/ PollEvents \/ Exit

\* line 710: the test of the loop holds
LoopTest ==
    pc = "loop" /\ game_running /\ ~window_should_close

\* WF_vars(TickAgain) with ENABLED <<TickAgain>>_vars written out: the loop
\* body can be executed, and changes alien_animation, exactly when main() is
\* at the loop test and the test holds
FairLoopBody ==
    []<>(~LoopTest) \/ []<><<TickAgain>>_vars

\* main() is sequential: the step it is at is taken
SpecLive ==
    InitLive /\ [][NextLive]_vars
    /\ FairLoopBody /\ WF_vars(PollEvents) /\ WF_vars(Exit)

----------------------------------------------------------------------------
(* key_callback, lines 40-67, called on its own: GLFW delivers any key     *)
(* with any action, a press of a key only when the key is up and a release *)
(* or a repeat only when it is down.                                       *)

\* the callback is called at most MaxKeyEvents times
MaxKeyEvents == 4

\* the keys of the four cases of the switch and one of the default case
KeyNames == {"ESCAPE", "RIGHT", "LEFT", "SPACE", "F1"}

\* the keys that are down: keys for the two arrows, gfx.down for the others
IsDown(key) ==
    IF key = "LEFT" THEN keys.left
    ELSE IF key = "RIGHT" THEN keys.right
    ELSE key \in gfx.down

InitKeys ==
    Start({LossTape}, {[op |-> "keys", events |-> <<>>, down |-> {}]})

\* one call of key_callback(window, key, scancode, action, mods)
KeyEvent(key, action) ==
    /\ gfx.op = "keys"
    /\ Len(gfx.events) < MaxKeyEvents
    /\ LET k == key_callback([move_dir |-> move_dir, rocket_fired |-> rocket_fired,
                              game_running |-> game_running], key, action)
           isdown == action # "RELEASE"
       IN /\ move_dir' = k.move_dir
          /\ rocket_fired' = k.rocket_fired
          /\ game_running' = k.game_running
          /\ keys' = [left |-> IF key = "LEFT" THEN isdown ELSE keys.left,
                      right |-> IF key = "RIGHT" THEN isdown ELSE keys.right]
          /\ gfx' = [gfx EXCEPT
                       !.events = Append(@, <<key, action>>),
                       !.down = IF key \in {"LEFT", "RIGHT"} THEN @
                                ELSE IF isdown THEN @ \cup {key} ELSE @ \ {key}]
    /\ UNCHANGED <<alien_array, death_counter, alien_animation, rockets, num_rockets,
                   player, first_line_array, frame_counter, score, aliens_killed,
                   window_should_close, pc, drawn, shown, space_presses, tape,
                   ticks, rid, next_id, log, hit_by>>

PressKey ==
    \E key \in KeyNames : ~IsDown(key) /\ KeyEvent(key, "PRESS")

ReleaseKey ==
    \E key \in KeyNames : IsDown(key) /\ KeyEvent(key, "RELEASE")

RepeatKey ==
    \E key \in KeyNames : IsDown(key) /\ KeyEvent(key, "REPEAT")

NextKeys == PressKey \/ ReleaseKey \/ RepeatKey

SpecKeys == InitKeys /\ [][NextKeys]_vars

----------------------------------------------------------------------------
(* Properties *)

\* the identities of the live projectiles
LiveIds == {rid[k] : k \in 0..(num_rockets - 1)}

\* how often v occurs in the sequence q
Count(q, v) == Cardinality({m \in 1..Len(q) : q[m] = v})

\* C1: a projectile that overlaps the player during the resolution costs the
\* player exactly one life and is removed from the live projectiles in the
\* same loop body.
C1_HitRemovesProjectile ==
    /\ player.lives = log.lives0 - Len(log.hits)
    /\ \A k \in 1..Len(log.hits) :
          log.hits[k].live => log.hits[k].id \notin LiveIds

\* C2: every projectile that is live when the resolution starts is advanced
\* exactly once in that loop body, also when a swap-remove moves it to another
\* slot (a loop body that ends in Loss leaves the loop early).
C2_EveryProjectileAdvancedOnce ==
    log.end \in {"none", "won"} =>
        \A k \in 1..Len(log.start_ids) : Count(log.adv, log.start_ids[k]) = 1

\* C3 as claimed: once the kill counter is 50 the session has ended in Win.
C3_FiftyKillsWin ==
    aliens_killed = 50 => pc = "won"

\* C3 as amended: the loop body in which the kill counter reaches 50 ends the
\* session, in Loss if a projectile of that loop body took the last life and
\* in Win otherwise; Win is entered in no other way.
C3_FiftyKillsEndSession ==
    /\ aliens_killed = 50 => pc = (IF player.lives = 0 THEN "lost" ELSE "won")
    /\ pc = "won" => aliens_killed = 50

C3_Witness ==
    pc = "won" /\ aliens_killed = 50 /\ num_rockets > 0

\* C4: the hit that takes the last life enters Loss within that projectile's
\* resolution: the rest of the loop body is not executed, nothing changes
\* afterwards, and lives never goes below 0.
C4_LossIsImmediateAndFinal ==
    /\ [](player.lives >= 0 /\ (player.lives = 0 <=> pc = "lost"))
    /\ [][/\ pc # "lost"
          /\ player'.lives = 0 =>
                /\ player.lives = 1
                /\ Len(log'.hits) = 1
                /\ pc' = "lost"
                /\ log'.adv # <<>>
                /\ log'.hits[1].id \in {rid'[log'.hits[1].slot]}
                /\ \A m \in 1..Len(log'.adv) : Count(log'.adv, log'.adv[m]) = 1
                /\ player'.x = player.x /\ player'.y = player.y
                /\ frame_counter' = frame_counter
                /\ first_line_array' = first_line_array
                /\ rocket_fired' = rocket_fired
                /\ next_id' = next_id]_vars

C4_Witness ==
    pc = "lost" /\ player.lives = 0 /\ log.lives0 = 1

\* C5: the alien-fire counter is reset to 0 in every loop body in which it
\* reaches 30, so it is in 0..29 after every loop body, and every 30th loop
\* body makes a fire attempt.
C5_FireCounterReset ==
    /\ frame_counter \in 0..(FireCadence - 1)
    /\ (log.end = "none" /\ ticks > 0 /\ ticks % FireCadence = 0) => log.due

\* C6: the number of live projectiles stays in 0..128, and no access to the
\* array, rockets[num_rockets - 1] of the swap-remove included, is made with
\* an index outside 0..127.
C6_RocketCountInBounds ==
    /\ num_rockets \in 0..GAME_MAX_ROCKETS
    /\ pc # "ub"
    /\ \A k \in 1..Len(log.kills) :
          /\ log.kills[k].slot \in 0..(GAME_MAX_ROCKETS - 1)
          /\ log.kills[k].n - 1 \in 0..(GAME_MAX_ROCKETS - 1)
    /\ \A k \in 1..Len(log.hits) : log.hits[k].slot \in 0..(GAME_MAX_ROCKETS - 1)
    /\ Len(log.start_ids) <= GAME_MAX_ROCKETS
    /\ Len(log.out) + Len(log.kills) <= Len(log.start_ids)

C6_Witness ==
    num_rockets = GAME_MAX_ROCKETS /\ Len(log.adv) = GAME_MAX_ROCKETS /\ pc = "poll"

\* C7: in a loop body that finds 128 projectiles in the array when the
\* aliens' shot is due, or when the player's shot is latched, that shot
\* creates no projectile: the array holds the projectiles it held and the
\* count stays 128, the program goes on to poll the events, and the latch
\* is cleared.
C7_FullPoolDropsFire ==
    [][ticks' = ticks + 1 /\ log'.end = "none" =>
         LET afterLoop == Len(log'.start_ids) - Len(log'.out) - Len(log'.kills)
             alienFull == log'.reached /\ afterLoop = GAME_MAX_ROCKETS
             playerFull == /\ log'.latched
                           /\ afterLoop + Len(log'.alien_shot) = GAME_MAX_ROCKETS
         IN /\ alienFull => log'.alien_shot = <<>>
            /\ playerFull => log'.player_shot = <<>>
            /\ alienFull \/ playerFull =>
                  /\ num_rockets' = GAME_MAX_ROCKETS
                  /\ next_id' = next_id + Len(log'.alien_shot) + Len(log'.player_shot)
                  /\ \A k \in 0..(GAME_MAX_ROCKETS - 1) :
                        \/ \E m \in 1..Len(log'.start_ids) : rid'[k] = log'.start_ids[m]
                        \/ \E m \in 1..Len(log'.alien_shot) : rid'[k] = log'.alien_shot[m].id
                        \/ \E m \in 1..Len(log'.player_shot) : rid'[k] = log'.player_shot[m].id
                  /\ pc' = "poll"
                  /\ ~rocket_fired']_vars

C7_Witness ==
    /\ num_rockets = GAME_MAX_ROCKETS
    /\ log.reached /\ log.alien_shot = <<>>
    /\ log.latched /\ log.player_shot = <<>>
    /\ Len(log.start_ids) - Len(log.out) - Len(log.kills) = GAME_MAX_ROCKETS

\* the number of projectiles right after the resolution loop of the last loop
\* body, by the log
AfterLoop == Len(log.start_ids) - Len(log.out) - Len(log.kills)

\* C8: every kill is made by a live projectile that is removed by it and makes
\* no other kill, the alien killed is the first non-dead alien in scan order
\* that the projectile overlaps, and the live count drops by one per kill.
C8_OneKillOneProjectile ==
    /\ \A k \in 1..Len(log.kills) :
          LET K == log.kills[k]
          IN /\ K.live
             /\ K.id \notin LiveIds
             /\ \A m \in 1..Len(log.kills) : log.kills[m].id = K.id => m = k
             /\ \A j \in 0..(K.alien - 1) :
                   (\/ alien_array[j].type # ALIEN_DEAD
                    \/ \E m \in (k + 1)..Len(log.kills) : log.kills[m].alien = j)
                   => ~sprite_overlap_check(
                          rocket_sprite, K.rocket.x, K.rocket.y,
                          AnimationFrame(InitialAlien(j).type, alien_animation),
                          InitialAlien(j).x, InitialAlien(j).y)
    /\ num_rockets = AfterLoop + Len(log.alien_shot) + Len(log.player_shot)
    /\ aliens_killed = Cardinality({j \in 0..(alien_hoard_size - 1) :
                                       alien_array[j].type = ALIEN_DEAD})

C8_Witness ==
    Len(log.kills) = 1 /\ num_rockets > 0 /\ Len(log.start_ids) = num_rockets + 1

\* the aliens that are dead and started with type t
DeadOfType(t) ==
    {j \in 0..(alien_hoard_size - 1) :
        alien_array[j].type = ALIEN_DEAD /\ InitialAlien(j).type = t}

\* C9: the score is 30 for every dead alien that was of type 1 plus 20 for
\* every dead alien that was of type 2.
C9_ScoreFormula ==
    score = 30 * Cardinality(DeadOfType(ALIEN_TYPE_A))
            + 20 * Cardinality(DeadOfType(ALIEN_TYPE_B))

C9_Witness ==
    DeadOfType(ALIEN_TYPE_A) # {} /\ DeadOfType(ALIEN_TYPE_B) # {} /\ pc = "poll"

\* C10: a dead alien stays dead, and an alien's type changes only to dead,
\* only in a loop body, and only when a projectile that was live at the start
\* of the resolution, advanced by its direction, overlaps the alien's current
\* animation frame.
C10_AlienTypeOneWay ==
    [][\A j \in 0..(alien_hoard_size - 1) :
         alien_array'[j].type # alien_array[j].type =>
            /\ alien_array[j].type # ALIEN_DEAD
            /\ alien_array'[j].type = ALIEN_DEAD
            /\ pc = "loop" /\ ticks' = ticks + 1
            /\ \E s \in 0..(num_rockets - 1) :
                  sprite_overlap_check(
                      rocket_sprite, rockets[s].x, rockets[s].y + rockets[s].dir,
                      AnimationFrame(alien_array[j].type, alien_animation'),
                      alien_array[j].x, alien_array[j].y)]_vars

C10_Witness ==
    \E j \in 0..(alien_hoard_size - 1) :
        alien_array[j].type = ALIEN_DEAD /\ death_counter[j] = DeathFrames - 1

\* C11: the death sprite of a dead alien is drawn in the ten loop bodies that
\* follow its death, one after the other, with the counter going from 10 to
\* 1, and nothing is drawn for the slot afterwards; the counter stays in
\* 0..10, is not decremented below 0, and is 10 for every alien not dead.
C11_DeathShownTenFrames ==
    /\ [](\A j \in 0..(alien_hoard_size - 1) :
            /\ death_counter[j] \in 0..DeathFrames
            /\ shown[j] = DeathFrames - death_counter[j]
            /\ alien_array[j].type # ALIEN_DEAD => death_counter[j] = DeathFrames)
    /\ [][ticks' = ticks + 1 =>
            \A j \in 0..(alien_hoard_size - 1) :
                IF alien_array[j].type = ALIEN_DEAD
                THEN /\ drawn'[j] = (IF shown[j] < DeathFrames THEN "death" ELSE "none")
                     /\ death_counter'[j] =
                            (IF death_counter[j] = 0 THEN 0 ELSE death_counter[j] - 1)
                ELSE /\ drawn'[j] \in {"frame0", "frame1"}
                     /\ death_counter'[j] = DeathFrames]_vars

C11_Witness ==
    \E j \in 0..(alien_hoard_size - 1) :
        /\ alien_array[j].type = ALIEN_DEAD
        /\ shown[j] = DeathFrames /\ death_counter[j] = 0 /\ drawn[j] = "none"
        /\ pc = "poll"

\* C12: after a loop body that went through the first-line update, the entry
\* of every column is the record of the column's non-dead alien of smallest
\* row, or the record of row 4 if the five aliens of the column are dead; so
\* the entry is not dead iff the column has an alien that is not dead.
C12_FirstLineIsFrontRank ==
    (ticks > 0 /\ log.end = "none") =>
        \A c \in 0..9 :
            /\ \A r \in 0..4 :
                  (/\ alien_array[c + 10 * r].type # ALIEN_DEAD
                   /\ \A q \in 0..(r - 1) : alien_array[c + 10 * q].type = ALIEN_DEAD)
                  => first_line_array[c] = alien_array[c + 10 * r]
            /\ (\A r \in 0..4 : alien_array[c + 10 * r].type = ALIEN_DEAD)
                  => first_line_array[c] = alien_array[c + 40]
            /\ first_line_array[c].type # ALIEN_DEAD
                  <=> \E r \in 0..4 : alien_array[c + 10 * r].type # ALIEN_DEAD

C12_Witness ==
    /\ pc = "poll"
    /\ \E c \in 0..9 :
          /\ \A r \in 0..2 : alien_array[c + 10 * r].type = ALIEN_DEAD
          /\ alien_array[c + 30].type # ALIEN_DEAD
          /\ first_line_array[c] = alien_array[c + 30]
    /\ \E c \in 0..9 :
          /\ \A r \in 0..4 : alien_array[c + 10 * r].type = ALIEN_DEAD
          /\ first_line_array[c] = alien_array[c + 40]

\* the slots that hold a projectile created in the last loop body
NewSlots ==
    {k \in 0..(num_rockets - 1) :
        \A m \in 1..Len(log.start_ids) : rid[k] # log.start_ids[m]}

\* C13: the aliens create a projectile only in a loop body in which the fire
\* counter reaches 30, at most one, from the first-line entry of the column
\* drawn at random and only if that entry is not dead, at its x + 4 and
\* y - 10; if the entry is dead nothing is created.
C13_AlienShotFromFrontRank ==
    log.end = "none" =>
        LET f == first_line_array[log.rand]
            byPlayer == {k \in NewSlots : \E m \in 1..Len(log.player_shot) :
                                            rid[k] = log.player_shot[m].id}
            byAliens == NewSlots \ byPlayer
        IN /\ Cardinality(byAliens) <= 1
           /\ Cardinality(byAliens) = Len(log.alien_shot)
           /\ \A k \in byAliens :
                 /\ log.reached
                 /\ f.type # ALIEN_DEAD
                 /\ rockets[k].x = f.x + 4
                 /\ rockets[k].y = f.y - 10
           /\ (log.reached /\ f.type = ALIEN_DEAD) => byAliens = {}

C13_Witness ==
    /\ pc = "poll"
    /\ Len(log.alien_shot) = 1
    /\ first_line_array[log.rand] # alien_array[log.rand]
    /\ \E k \in NewSlots : rockets[k].x = first_line_array[log.rand].x + 4

\* C14: the aliens' shot of a loop body comes from an alien that is not dead
\* after the rocket loop of that loop body, never from an alien killed in it,
\* and the player's shot starts from the player's position after the
\* movement of that loop body.
C14_FireAfterResolutionAndMove ==
    log.end = "none" =>
        /\ \A m \in 1..Len(log.alien_shot) :
              LET rk == log.alien_shot[m].rocket
                  From(j) == /\ rk.x = InitialAlien(j).x + 4
                             /\ rk.y = InitialAlien(j).y - 10
              IN /\ \E j \in 0..(alien_hoard_size - 1) :
                        From(j) /\ alien_array[j].type # ALIEN_DEAD
                 /\ \A k \in 1..Len(log.kills) : ~From(log.kills[k].alien)
                 /\ \E s \in NewSlots : rockets[s] = rk
        /\ \A m \in 1..Len(log.player_shot) :
              /\ log.player_shot[m].rocket.x = player.x + (playerSprite.width \div 2)
              /\ log.player_shot[m].rocket.y = player.y + playerSprite.height
              /\ \E s \in NewSlots : rockets[s] = log.player_shot[m].rocket

C14_Witness ==
    /\ pc = "poll"
    /\ Len(log.alien_shot) = 1 /\ Len(log.player_shot) = 1 /\ move_dir # 0
    /\ \E k \in 1..Len(log.kills) : log.kills[k].alien % 10 = log.rand

\* the slots that hold a projectile the aliens created in the last loop body
AlienNewSlots ==
    {k \in NewSlots : \A m \in 1..Len(log.player_shot) : rid[k] # log.player_shot[m].id}

\* C15 as claimed: every projectile the aliens create has a positive
\* direction value.
C15_AlienShotPositiveDir ==
    log.end = "none" => \A k \in AlienNewSlots : rockets[k].dir > 0

\* C15 as amended: every projectile the aliens create has a negative
\* direction value and travels toward the player: the player is at a smaller
\* y, and an advance by the direction brings the projectile nearer to it.
C15_AlienShotTowardPlayer ==
    log.end = "none" =>
        \A k \in AlienNewSlots :
            /\ rockets[k].dir < 0
            /\ player.y < rockets[k].y + rockets[k].dir
            /\ rockets[k].y + rockets[k].dir - player.y < rockets[k].y - player.y

C15_Witness ==
    pc = "poll" /\ AlienNewSlots # {} /\ \A k \in AlienNewSlots : rockets[k].dir = -3

\* C16: every live projectile has its y in 5..399 in every state, newly
\* created ones included; a projectile that the rocket loop advances to a y
\* of 400 or more, or less than 5, is removed in that loop body, and no other
\* projectile is removed for leaving the field.
C16_ProjectilesInsideField ==
    /\ [](\A k \in 0..(num_rockets - 1) :
            rockets[k].y >= rocket_sprite.height /\ rockets[k].y < buffer_height)
    /\ [][ticks' = ticks + 1 =>
            \A s \in 0..(num_rockets - 1) :
                LET y == rockets[s].y + rockets[s].dir
                    advanced == \E m \in 1..Len(log'.adv) : log'.adv[m] = rid[s]
                    left == \E m \in 1..Len(log'.out) : log'.out[m] = rid[s]
                    live == \E k \in 0..(num_rockets' - 1) : rid'[k] = rid[s]
                IN /\ (advanced /\ (y >= buffer_height \/ y < rocket_sprite.height))
                        => left /\ ~live
                   /\ left => advanced /\ (y >= buffer_height \/ y < rocket_sprite.height)]_vars

C16_Witness ==
    /\ pc = "poll"
    /\ Len(log.out) > 0
    /\ Len(log.player_shot) = 1
    /\ \E k \in 0..(num_rockets - 1) : rockets[k].dir < 0

\* C17: the player's x is in 0..290 in every state; a loop body that reaches
\* the movement adds 2 * move_dir to x (to the spawn x if the player was hit
\* in that loop body), puts x at 290 if the sprite would reach the right edge
\* and at 0 if x would not stay positive.
C17_PlayerInsideField ==
    /\ [](player.x >= 0 /\ player.x <= buffer_width - playerSprite.width)
    /\ [][(ticks' = ticks + 1 /\ log'.end = "none") =>
            LET from == IF log'.hits = <<>> THEN player.x ELSE SpawnX
                to == from + 2 * move_dir
            IN player'.x = (IF move_dir = 0 THEN from
                            ELSE IF to + playerSprite.width >= buffer_width
                                 THEN buffer_width - playerSprite.width
                            ELSE IF to <= 0 THEN 0
                            ELSE to)]_vars

C17_Witness ==
    /\ pc = "poll" /\ move_dir = -1 /\ player.x = 0
    /\ tape = EdgeTape /\ ticks > 150

\* C18: the latch is set by glfwPollEvents iff it delivers a press of space,
\* however many; a loop body that reaches the fire step creates one
\* projectile of the player if the latch is set and the array has room, none
\* otherwise, and leaves the latch false.
C18_LatchReadAndClearedOnce ==
    /\ [](pc = "loop" /\ ticks > 0 => (rocket_fired <=> space_presses >= 1))
    /\ [][(ticks' = ticks + 1 /\ log'.end = "none") =>
            LET fresh == {k \in 0..(num_rockets' - 1) :
                            /\ \A m \in 1..Len(log'.start_ids) : rid'[k] # log'.start_ids[m]
                            /\ rockets'[k].dir > 0}
                room == Len(log'.start_ids) - Len(log'.out) - Len(log'.kills)
                            + Len(log'.alien_shot) < GAME_MAX_ROCKETS
            IN /\ Cardinality(fresh) = (IF rocket_fired /\ room THEN 1 ELSE 0)
               /\ Len(log'.player_shot) = Cardinality(fresh)
               /\ ~rocket_fired']_vars

C18_Witness ==
    /\ pc = "poll" /\ space_presses = 2 /\ ~rocket_fired
    /\ Len(log.player_shot) = 1
    /\ Cardinality({k \in NewSlots : rockets[k].dir > 0}) = 1

\* C19: a press of escape sets game_running to false (the tape's own press
\* of escape, once the tape is used up, included); from then on no loop body
\* runs: the only step left is the exit of the loop, the count of loop bodies
\* and everything the loop body draws or simulates stay as they are, and
\* game_running is never true again.  A loop body only ever starts with
\* game_running true, the window not closed and the program at the loop test.
C19_NoTickAfterEscape ==
    /\ [](pc = "loop" /\ SegAt(tape, ticks + 1) = <<>> => ~game_running)
    /\ [][~game_running =>
            /\ ~game_running' /\ ticks' = ticks /\ pc = "loop" /\ pc' = "quit"
            /\ UNCHANGED <<alien_array, death_counter, alien_animation, rockets,
                           num_rockets, player, first_line_array, frame_counter,
                           score, aliens_killed, drawn, shown, log>>]_vars
    /\ [][ticks' # ticks =>
            game_running /\ ~window_should_close /\ pc = "loop"]_vars

\* escape was pressed while the tape still had loop bodies to run, and the
\* loop has been left
C19_Witness ==
    /\ pc = "quit" /\ ~game_running /\ ~window_should_close
    /\ ticks > 20
    /\ SegAt(tape, ticks + 1) # <<>>

\* C20: both animation clocks are in 0..19 in every state, the frame index
\* time / frame_duration is 0 or 1, the two clocks are equal, and the clock is
\* the number of loop bodies run so far modulo 20 (so 20 advances from 0 lead
\* back to 0)
C20_AnimationClocks ==
    /\ \A i \in 0..1 :
          /\ alien_animation[i] \in 0..(num_frames * frame_duration - 1)
          /\ alien_animation[i] \div frame_duration \in {0, 1}
          /\ alien_animation[i] = ticks % (num_frames * frame_duration)
    /\ alien_animation[0] = alien_animation[1]

\* the clocks are back at 0 after exactly 20 loop bodies
C20_Witness ==
    /\ ticks = num_frames * frame_duration
    /\ alien_animation[0] = 0 /\ alien_animation[1] = 0

\* C21: a loop body in which the player is hit and keeps a life puts the
\* player at the spawn point (150, 25): at the end of the rocket loop the
\* player is there, so the loop body that goes on ends with the player one
\* lateral move away from the spawn x, at the spawn y, and a loop body that
\* ends on Win with the player at the spawn point.  The rocket loop goes on
\* after such a hit: if the slot of the hit is not the last one, a further
\* slot is visited (the number of slots visited is the length of log.adv).
C21_RespawnAfterHit ==
    [][(ticks' = ticks + 1 /\ log'.hits # <<>>) =>
        /\ log'.end # "lost" =>
              /\ player'.lives = player.lives - Len(log'.hits)
              /\ player'.lives > 0
              /\ player'.y = SpawnY
              /\ player'.x = (IF log'.end = "none" THEN MovePlayer(SpawnX, move_dir)
                              ELSE SpawnX)
        /\ \A k \in 1..Len(log'.hits) :
              (log'.end # "lost" \/ k < Len(log'.hits)) =>
                 (log'.hits[k].slot + 1 < log'.hits[k].n =>
                     Len(log'.adv) > log'.hits[k].slot + 1)]_vars

\* the player was hit away from the spawn x, kept a life, and another rocket
\* was visited after the one that hit
C21_Witness ==
    /\ pc = "poll" /\ log.end = "none"
    /\ Len(log.hits) = 1
    /\ player.lives \in {1, 2}
    /\ player.x = SpawnX /\ player.y = SpawnY
    /\ tape = LossTape
    /\ Len(log.adv) > log.hits[1].slot + 1

\* the cells of buffer that the set bits of sprite stand for when the
\* coordinates x + i and y + height - 1 - j are computed without wraparound
\* (an x or y of at least 2^31, a representative below 0, puts every bit
\* outside the buffer)
TrueCells(buffer, sprite, x, y) ==
    {(y + sprite.height - 1 - ij[2]) * buffer.width + (x + ij[1]) :
        ij \in {p \in (0..(sprite.width - 1)) \X (0..(sprite.height - 1)) :
                  /\ sprite.data[p[2] * sprite.width + p[1]] # 0
                  /\ x >= 0 /\ y >= 0
                  /\ x + p[1] < buffer.width
                  /\ y + sprite.height - 1 - p[2] < buffer.height}}

\* C22: DrawSprite writes only cells whose coordinates x + i and
\* y + height - 1 - j, computed without wraparound, lie inside the buffer:
\* every cell whose content has changed is such a cell, and the pixel array
\* keeps its size.
C22_NoWrapAroundWrite ==
    gfx.op = "DrawSprite" =>
        /\ DOMAIN gfx.buf.data = DOMAIN gfx.prev.data
        /\ \A c \in DOMAIN gfx.buf.data :
              gfx.buf.data[c] # gfx.prev.data[c] =>
                 c \in TrueCells(gfx.prev, gfx.arg.sprite, gfx.arg.x, gfx.arg.y)

\* C23: sprite_overlap_check gives the same result with its two boxes
\* exchanged, and is true exactly when the boxes [x, x+w) x [y, y+h) have a
\* cell in common; two boxes that only share an edge do not overlap.
C23_OverlapIsBoxIntersection ==
    gfx.op = "sprite_overlap_check" =>
        LET a == gfx.arg
            common ==
                /\ (a.x_a..(a.x_a + a.sp_a.width - 1))
                      \cap (a.x_b..(a.x_b + a.sp_b.width - 1)) # {}
                /\ (a.y_a..(a.y_a + a.sp_a.height - 1))
                      \cap (a.y_b..(a.y_b + a.sp_b.height - 1)) # {}
            edge ==
                \/ a.x_a + a.sp_a.width = a.x_b \/ a.x_b + a.sp_b.width = a.x_a
                \/ a.y_a + a.sp_a.height = a.y_b \/ a.y_b + a.sp_b.height = a.y_a
        IN /\ gfx.res[1] = gfx.res[2]
           /\ gfx.res[1] = common
           /\ edge => ~gfx.res[1]

\* two boxes whose y extents overlap and that share a vertical edge
C23_Witness ==
    /\ gfx.op = "sprite_overlap_check"
    /\ gfx.arg.x_a + gfx.arg.sp_a.width = gfx.arg.x_b
    /\ gfx.arg.y_a = gfx.arg.y_b
    /\ gfx.res = <<FALSE, FALSE>>

\* C24: after DrawSprite every cell that a set bit (i, j) stands for,
\* (x + i, y + height - 1 - j) inside the buffer, holds the color, whatever it
\* held before, and every other cell holds what it held before; width and
\* height are unchanged.
C24_ExactlySetBitsPainted ==
    gfx.op = "DrawSprite" =>
        /\ gfx.buf.width = gfx.prev.width /\ gfx.buf.height = gfx.prev.height
        /\ DOMAIN gfx.buf.data = DOMAIN gfx.prev.data
        /\ \A c \in DOMAIN gfx.buf.data :
              gfx.buf.data[c] =
                 (IF c \in TrueCells(gfx.prev, gfx.arg.sprite, gfx.arg.x, gfx.arg.y)
                  THEN gfx.arg.color ELSE gfx.prev.data[c])

\* C25: after clear_buffer every one of the width * height pixels holds the
\* color, width and height are what they were, and a second call with the
\* same color leaves the buffer as the first call left it.
C25_ClearBufferIdempotent ==
    gfx.op = "clear_buffer" =>
        /\ gfx.buf.width = gfx.prev.width /\ gfx.buf.height = gfx.prev.height
        /\ DOMAIN gfx.buf.data = 0..(gfx.buf.width * gfx.buf.height - 1)
        /\ \A c \in 0..(gfx.buf.width * gfx.buf.height - 1) :
              gfx.buf.data[c] = gfx.arg.color
        /\ gfx.arg.calls = 2 => gfx.buf = gfx.prev

\* the second of two calls with a color that the buffer did not hold in
\* every cell before the first
C25_Witness ==
    /\ gfx.op = "clear_buffer" /\ gfx.arg.calls = 2
    /\ gfx.arg.color = 2
    /\ gfx.buf.width = 2 /\ gfx.buf.height = 2
    /\ gfx.buf = gfx.prev

\* C26: the removals of a loop body remove exactly the projectiles they are
\* made for (those that left the field and those that killed an alien, each
\* once): the live projectiles afterwards that were live before are all the
\* others, each in one slot only, with the x and dir it had and with the y it
\* had, advanced by dir if the loop advanced it.
C26_SwapRemoveKeepsOthers ==
    [][ticks' = ticks + 1 =>
        LET before == {rid[k] : k \in 0..(num_rockets - 1)}
            after == {rid'[k] : k \in 0..(num_rockets' - 1)}
            removed == {log'.out[m] : m \in 1..Len(log'.out)}
                       \cup {log'.kills[m].id : m \in 1..Len(log'.kills)}
        IN /\ removed \subseteq before
           /\ Cardinality(removed) = Len(log'.out) + Len(log'.kills)
           /\ after \cap before = before \ removed
           /\ Cardinality(after) = num_rockets'
           /\ \A k \in 0..(num_rockets - 1) :
                 rid[k] \notin removed =>
                    \E m \in 0..(num_rockets' - 1) :
                       /\ rid'[m] = rid[k]
                       /\ rockets'[m].x = rockets[k].x
                       /\ rockets'[m].dir = rockets[k].dir
                       /\ rockets'[m].y = rockets[k].y
                             + rockets[k].dir * Count(log'.adv, rid[k])]_vars

\* a projectile was removed from a slot that was not the last one, and the
\* projectile that was in the last slot is now in that slot
C26_Witness ==
    /\ pc = "poll" /\ num_rockets >= 2
    /\ \E m \in 1..Len(log.kills) :
          /\ log.kills[m].slot < log.kills[m].n - 1
          /\ log.kills[m].slot < num_rockets
          /\ rid[log.kills[m].slot] \in {log.start_ids[q] : q \in 1..Len(log.start_ids)}

\* C27: the projectile the player creates in a loop body is at the x the
\* player has after the lateral movement of that loop body, plus 5, and at
\* the player's y plus 10, with direction +3; there it does not overlap the
\* player, every alien is at a larger y, and an advance by the direction
\* takes it away from the player.
C27_PlayerShotAboveThePlayer ==
    [][(ticks' = ticks + 1 /\ log'.end = "none") =>
        \A k \in 0..(num_rockets' - 1) :
           (\E m \in 1..Len(log'.player_shot) : log'.player_shot[m].id = rid'[k]) =>
              LET from == IF log'.hits = <<>> THEN player.x ELSE SpawnX
                  rk == rockets'[k]
              IN /\ rk.x = MovePlayer(from, move_dir) + 5
                 /\ rk.x = player'.x + 5
                 /\ rk.y = player'.y + 10
                 /\ rk.dir = 3
                 /\ ~sprite_overlap_check(rocket_sprite, rk.x, rk.y,
                                          playerSprite, player'.x, player'.y)
                 /\ \A j \in 0..(alien_hoard_size - 1) : alien_array'[j].y > rk.y
                 /\ rk.y + rk.dir - player'.y > rk.y - player'.y]_vars

\* the player fires while moving to the right
C27_Witness ==
    /\ pc = "poll" /\ move_dir = 1 /\ player.x > SpawnX
    /\ Len(log.player_shot) = 1
    /\ \E k \in 0..(num_rockets - 1) :
          /\ rid[k] = log.player_shot[1].id
          /\ rockets[k] = [x |-> player.x + 5, y |-> SpawnY + 10, dir |-> 3]

\* C28: no step changes an alien's y; a step changes an alien's x exactly when
\* it kills the alien, and then by -1 for an alien of type 1 and by -2 for an
\* alien of type 2 (half the difference of the widths of the death sprite and
\* of the live sprite, rounded down); so an alien that is not dead is at
\* (30 + 26 * column, 250 + 23 * row), and a dead one 1 or 2 to the left.
C28_AliensStayOnTheGrid ==
    /\ [](\A j \in 0..(alien_hoard_size - 1) :
            /\ alien_array[j].y = 250 + 23 * (j \div 10)
            /\ alien_array[j].type # ALIEN_DEAD => alien_array[j].x = 30 + 26 * (j % 10)
            /\ alien_array[j].type = ALIEN_DEAD =>
                  alien_array[j].x = 30 + 26 * (j % 10) - (IF j < 20 THEN 1 ELSE 2))
    /\ [][\A j \in 0..(alien_hoard_size - 1) :
            LET killed == alien_array[j].type # ALIEN_DEAD
                          /\ alien_array'[j].type = ALIEN_DEAD
                w == AnimationFrame(alien_array[j].type, alien_animation').width
            IN /\ alien_array'[j].y = alien_array[j].y
               /\ (alien_array'[j].x # alien_array[j].x) <=> killed
               /\ killed =>
                     /\ alien_array'[j].x
                          = alien_array[j].x - ((alien_death_sprite.width - w) \div 2)
                     /\ alien_array[j].x - alien_array'[j].x
                          = (IF alien_array[j].type = ALIEN_TYPE_A THEN 1 ELSE 2)]_vars

\* an alien of each type has been killed and moved, the others are in place
C28_Witness ==
    /\ pc = "poll"
    /\ \E j \in 0..19 : alien_array[j] = [type |-> ALIEN_DEAD, x |-> 29 + 26 * (j % 10),
                                            y |-> 250 + 23 * (j \div 10)]
    /\ \E j \in 20..49 : alien_array[j] = [type |-> ALIEN_DEAD, x |-> 28 + 26 * (j % 10),
                                             y |-> 250 + 23 * (j \div 10)]
    /\ \E j \in 0..49 : alien_array[j] = InitialAlien(j)

\* C29: aliens_killed is the number of aliens of type ALIEN_DEAD in every
\* state, so it is in 0..50; a loop body adds one to it for every alien it
\* kills, each of them not dead before and killed once, and no other step
\* changes it.
C29_KillCounterCountsTheDead ==
    /\ [](/\ aliens_killed \in 0..alien_hoard_size
          /\ aliens_killed = Cardinality({j \in 0..(alien_hoard_size - 1) :
                                             alien_array[j].type = ALIEN_DEAD}))
    /\ [][LET died == {j \in 0..(alien_hoard_size - 1) :
                          /\ alien_array[j].type # ALIEN_DEAD
                          /\ alien_array'[j].type = ALIEN_DEAD}
          IN /\ aliens_killed' = aliens_killed + Cardinality(died)
             /\ ticks' = ticks => died = {}
             /\ ticks' = ticks + 1 =>
                   /\ Len(log'.kills) = Cardinality(died)
                   /\ died = {log'.kills[m].alien : m \in 1..Len(log'.kills)}]_vars

\* the fiftieth kill has been counted
C29_Witness ==
    /\ aliens_killed = alien_hoard_size
    /\ Len(log.kills) >= 1
    /\ \A j \in 0..(alien_hoard_size - 1) : alien_array[j].type = ALIEN_DEAD

\* C30: the number of lives the player has lost is at most the number of
\* distinct projectiles that have hit the player, no projectile taking a
\* life twice.
C30_OneLifePerProjectile ==
    StartLives - player.lives <= Cardinality(hit_by)

\* the live projectiles the aliens fired: dir is written when a projectile is
\* created (lines 986 and 1000) and nowhere else
AlienRockets == {k \in 0..(num_rockets - 1) : rockets[k].dir < 0}

\* C32: no alien is killed by a projectile the aliens fired: every kill of a
\* loop body is made by a projectile of the player, and every live projectile
\* of the aliens lies wholly below every alien not dead whose columns of
\* pixels it shares, the alien it was fired from included.
C32_OnlyPlayerShotsKill ==
    /\ \A k \in 1..Len(log.kills) : log.kills[k].rocket.dir > 0
    /\ \A k \in AlienRockets :
          \A j \in 0..(alien_hoard_size - 1) :
             (/\ alien_array[j].type # ALIEN_DEAD
              /\ rockets[k].x < alien_array[j].x + AnimationFrame(alien_array[j].type, alien_animation).width
              /\ alien_array[j].x < rockets[k].x + rocket_sprite.width)
             => rockets[k].y + rocket_sprite.height <= alien_array[j].y
    /\ \A k \in 1..Len(log.alien_shot) :
          LET S == log.alien_shot[k]
          IN /\ S.rocket.y + rocket_sprite.height < first_line_array[S.col].y
             /\ S.rocket.dir < 0

\* a projectile of the player kills an alien while a projectile fired from
\* the second row or further back (the front of its column is dead) is live
C32_Witness ==
    /\ Len(log.kills) >= 1
    /\ \E k \in AlienRockets : rockets[k].y > InitialAlien(0).y

\* the live projectiles the player fired
PlayerRockets == {k \in 0..(num_rockets - 1) : rockets[k].dir > 0}

\* C33: every projectile found to overlap the player by the test of line 844
\* is one the aliens fired, whatever slot it is tested in, so only those take
\* lives; a live projectile of the player is at or above the top of the
\* player's box and does not overlap the player.
C33_PlayerShotsMissThePlayer ==
    /\ \A k \in 1..Len(log.hits) : log.hits[k].rocket.dir < 0
    /\ player.lives = log.lives0 - Len(log.hits)
    /\ \A k \in PlayerRockets :
          /\ rockets[k].y >= player.y + playerSprite.height
          /\ ~sprite_overlap_check(rocket_sprite, rockets[k].x, rockets[k].y,
                                   playerSprite, player.x, player.y)

\* the player has lost a life, and in the last loop body a projectile of the
\* player was copied by a kill into the slot under test, was tested against
\* the player there, and was not advanced
C33_Witness ==
    /\ player.lives < StartLives
    /\ \E m \in 1..Len(log.kills) :
          LET K == log.kills[m]
          IN /\ K.slot < K.n - 1
             /\ K.slot \in PlayerRockets
             /\ Count(log.adv, rid[K.slot]) = 0
             /\ Count(log.start_ids, rid[K.slot]) = 1

\* C34: when main() has returned through the win test of line 888, every
\* alien is dead and the score is 1200: 30 for each of the 20 aliens of rows
\* 0-1 (type 1) and 20 for each of the 30 aliens of rows 2-4 (type 2).
C34_WinMeansAllDeadAnd1200 ==
    pc = "won" =>
        /\ \A j \in 0..(alien_hoard_size - 1) : alien_array[j].type = ALIEN_DEAD
        /\ score = 1200
        /\ score = 30 * Cardinality({j \in 0..(alien_hoard_size - 1) : InitialAlien(j).type = ALIEN_TYPE_A})
                   + 20 * Cardinality({j \in 0..(alien_hoard_size - 1) : InitialAlien(j).type = ALIEN_TYPE_B})
        /\ {j \in 0..(alien_hoard_size - 1) : InitialAlien(j).type = ALIEN_TYPE_A} = 0..19
        /\ {j \in 0..(alien_hoard_size - 1) : InitialAlien(j).type = ALIEN_TYPE_B} = 20..49

\* the session has ended in Win
C34_Witness ==
    pc = "won" /\ log.end = "won" /\ Len(log.kills) >= 1 /\ score = 1200

\* C35: whatever keys are pressed, released and repeated, each arrow key
\* being pressed only when up and released only when down, move_dir is 1 if
\* the right arrow is down, minus 1 if the left arrow is down, so it is in
\* {-1, 0, 1} and is 0 when both arrows are up; a call for another key, or a
\* repeat of an arrow, leaves it as it is.
C35_MoveDirIsRightMinusLeft ==
    /\ [](/\ move_dir = (IF keys.right THEN 1 ELSE 0) - (IF keys.left THEN 1 ELSE 0)
          /\ move_dir \in {-1, 0, 1}
          /\ (~keys.right /\ ~keys.left) => move_dir = 0)
    /\ [][(/\ gfx.op = "keys"
           /\ Len(gfx'.events) = Len(gfx.events) + 1
           /\ LET e == gfx'.events[Len(gfx'.events)]
              IN e[1] \notin {"LEFT", "RIGHT"} \/ e[2] = "REPEAT")
          => move_dir' = move_dir]_vars

\* both arrows have been pressed, the left one first, and released again in
\* the same order: move_dir has gone through -1, 0 and 1 back to 0
C35_Witness ==
    /\ gfx.op = "keys"
    /\ Len(gfx.events) = 4
    /\ gfx.events[1] = <<"LEFT", "PRESS">>
    /\ gfx.events[2] = <<"RIGHT", "PRESS">>
    /\ gfx.events[3] = <<"LEFT", "RELEASE">>
    /\ gfx.events[4] = <<"RIGHT", "RELEASE">>
    /\ move_dir = 0

\* main() has returned, or has left the loop
Ended == pc \in {"won", "lost", "quit", "ub"}

\* C31: in a session whose loop never stops, no projectile stays live for
\* ever: whatever its identity, again and again no live projectile has it
\* (the projectile that had it has left the field or killed an alien), unless
\* the session ends.
C31_EveryProjectileGoes ==
    \A id \in 1..IdSpace : []<>(id \notin LiveIds \/ Ended)

\* a live projectile was copied to another slot by a swap-remove in the last
\* loop body and was not advanced in it, and a projectile left the field
C31_Witness ==
    /\ ~Ended
    /\ Len(log.out) >= 1
    /\ \E id \in LiveIds : Count(log.start_ids, id) = 1 /\ Count(log.adv, id) = 0

====
